---- MODULE Spec2Model ----
(***************************************************************************)
(* Vigenere cipher: the character-stream transform engine                  *)
(* (src/src/iterator.rs, VigenereIterator) and the whole-string facade     *)
(* (src/src/lib.rs, Vigenere).                                             *)
(*                                                                         *)
(* Characters are Unicode code points (naturals).  An Option<char> is a    *)
(* sequence of length at most one: <<>> is None, <<ch>> is Some(ch).       *)
(* A string is a sequence of code points.                                  *)
(***************************************************************************)
EXTENDS Integers, Sequences, FiniteSets, TLC

VARIABLES
    overflow_checks,   \* build profile: TRUE = u8 overflow panics, FALSE = it wraps
    st,                \* "idle" | "ready" | "panic_new" | "panic_next"
    key,               \* the key string handed to VigenereIterator::new
    mode,              \* VigenereIterator.mode
    distances,         \* VigenereIterator.distances
    force_case,        \* VigenereIterator.force_case
    none_letter_mode,  \* VigenereIterator.none_letter_mode
    index,             \* VigenereIterator.index
    pulled,            \* VigenereIterator.iter: the characters it has yielded so far
    srcDone,           \* VigenereIterator.iter: it has returned None at least once
    out,               \* the characters next() has returned so far
    ret,               \* the value of the last call of next()
    vig,               \* Vigenere(String): <<>> before Vigenere::new, <<key>> after
    text,              \* facade: the caller's own string
    fop,               \* facade: the last call, "none" | "encrypt" | "decrypt"
    farg,              \* facade: the argument of the last call
    fret,              \* facade: the String the last call returned
    fpanic,            \* facade: the last call panicked
    fprev,             \* facade: <<op, arg>> of the call whose result is farg, or <<>>
    depth,             \* facade: number of calls chained on a result so far
    ffirst,            \* facade: <<op, arg, ret>> of the first call, or <<>>
    fmany              \* facade: more than one call has been made

engineVars == <<st, key, mode, distances, force_case, none_letter_mode, index,
                pulled, srcDone, out, ret>>
facadeVars == <<vig, text, fop, farg, fret, fpanic, fprev, depth, ffirst, fmany>>
vars == <<overflow_checks, engineVars, facadeVars>>

---------------------------------------------------------------------------
(* Bounds of the model *)

MaxKeyLen == 2
MaxTextLen == 4
MaxChain == 1

\* 'B', 'z', '1', U+00E9 (e acute)
KeyChars == {66, 122, 49, 233}
\* 'A', 'z', ' '
TextChars == {65, 122, 32}

RECURSIVE SeqsUpTo(_, _)
SeqsUpTo(S, n) ==
    IF n = 0 THEN {<<>>}
    ELSE LET shorter == SeqsUpTo(S, n - 1) IN
         shorter \cup {Append(s, x) : s \in {t \in shorter : Len(t) = n - 1}, x \in S}

Keys == SeqsUpTo(KeyChars, MaxKeyLen)
\* 'A', 'a' (the key letters of shift 0), 'z'
FacadeKeyChars == {65, 97, 122}
\* the keys handed to Vigenere::new
FacadeKeys == SeqsUpTo(FacadeKeyChars, MaxKeyLen)
Texts == SeqsUpTo(TextChars, MaxTextLen)

---------------------------------------------------------------------------
(* Characters and u8 arithmetic *)

UPPER_BASE == 65
LOWER_BASE == 97

\* ch >= 'A' && ch <= 'Z'
IsUpper(ch) == ch >= 65 /\ ch <= 90
\* ch >= 'a' && ch <= 'z'
IsLower(ch) == ch >= 97 /\ ch <= 122
IsLetter(ch) == IsUpper(ch) \/ IsLower(ch)

\* ch as u8: the low eight bits of the code point
AsU8(ch) == ch % 256

\* mutant: the key character is not upper-cased
ToUppercaseNone(ch) == ch

\* ch.to_uppercase().next().unwrap() on the Latin-1 range: the first character
\* of the upper-case mapping (U+00DF maps to "SS", U+00B5 to U+039C, U+00FF to U+0178)
ToUppercaseFirst(ch) ==
    IF ch >= 97 /\ ch <= 122 THEN ch - 32
    ELSE IF ch = 181 THEN 924
    ELSE IF ch = 223 THEN 83
    ELSE IF ch = 255 THEN 376
    ELSE IF ch >= 224 /\ ch <= 254 /\ ch # 247 THEN ch - 32
    ELSE ch

\* a u8 result outside 0..255 panics when overflow checks are on, wraps otherwise
Overflows(n) == n < 0 \/ n > 255
WrapU8(n) == n % 256

---------------------------------------------------------------------------
(* VigenereIterator::new *)

\* ch as u8 - Self::UPPER_BASE, before the result is stored in a u8
KeyShift(ch) == AsU8(ToUppercaseFirst(ch)) - UPPER_BASE

NewPanics(k, checks) == checks /\ \E i \in 1..Len(k) : Overflows(KeyShift(k[i]))

NewDistances(k) == [i \in 1..Len(k) |-> WrapU8(KeyShift(k[i]))]

\* Option<ForceCase> / Option<NonLetterMode> arguments of encrypt() and decrypt()
ForceCaseOpts == {<<>>, <<"Keep">>, <<"ToLower">>, <<"ToUpper">>}
NonLetterOpts == {<<>>, <<"Keep">>, <<"Skip">>}
OrDefault(opt) == IF opt = <<>> THEN "Keep" ELSE opt[1]

\* mutant: without an option the non-letter policy defaults to Skip
NewEngineSkipDefault(m, k, fcOpt, nlmOpt) ==
    [mode |-> m, distances |-> NewDistances(k), force_case |-> OrDefault(fcOpt),
     none_letter_mode |-> IF nlmOpt = <<>> THEN "Skip" ELSE nlmOpt[1], index |-> 0]

\* the engine that Encrypt::encrypt / Decrypt::decrypt return
NewEngine(m, k, fcOpt, nlmOpt) ==
    [mode |-> m, distances |-> NewDistances(k), force_case |-> OrDefault(fcOpt),
     none_letter_mode |-> OrDefault(nlmOpt), index |-> 0]

---------------------------------------------------------------------------
(* VigenereIterator::next: one pass of the loop body on one upstream item *)

\* mutant: the cursor is advanced without wrapping
AdvanceNoWrap(i, len) == i + 1

\* self.index = (self.index + 1) % self.distances.len()
Advance(i, len) == (i + 1) % len

\* mutant: the two modes are swapped
ShiftRawSwapped(m, input, distance) ==
    IF m = "Encrypt" THEN 26 + input - distance ELSE input + distance

\* mutant: Decrypt subtracts without adding 26 first
ShiftRawNoBias(m, input, distance) ==
    IF m = "Encrypt" THEN input + distance ELSE input - distance

\* the integer value of the shifted letter before it is stored in a u8
ShiftRaw(m, input, distance) ==
    IF m = "Encrypt" THEN input + distance ELSE 26 + input - distance

\* mutant: the sum is not reduced modulo 26
ShiftOutputNoMod(m, input, distance) == WrapU8(ShiftRaw(m, input, distance))

\* (input + distance) % 26  |  (26 + input - distance) % 26, in u8
ShiftOutput(m, input, distance) == WrapU8(ShiftRaw(m, input, distance)) % 26

ShiftPanics(m, input, distance, checks) ==
    checks /\ Overflows(ShiftRaw(m, input, distance))

\* upper-case arm: lower base only under ForceCase::ToLower
RenderUpper(fc, output) ==
    IF fc = "ToLower" THEN LOWER_BASE + output ELSE UPPER_BASE + output

\* mutant: the lower-case arm ignores the case policy
RenderLowerIgnoresCase(fc, output) == LOWER_BASE + output

\* lower-case arm: upper base only under ForceCase::ToUpper
RenderLower(fc, output) ==
    IF fc = "ToUpper" THEN UPPER_BASE + output ELSE LOWER_BASE + output

\* the two letter arms; base is the base of the input's case
LetterArm(e, ch, checks) ==
    IF e.index >= Len(e.distances)
    THEN [kind |-> "panic", ch |-> 0, index |-> e.index]
    ELSE LET distance == e.distances[e.index + 1]
             input == AsU8(ch) - (IF IsUpper(ch) THEN UPPER_BASE ELSE LOWER_BASE)
             output == ShiftOutput(e.mode, input, distance)
             rendered == IF IsUpper(ch) THEN RenderUpper(e.force_case, output)
                         ELSE RenderLower(e.force_case, output)
         IN  IF ShiftPanics(e.mode, input, distance, checks)
                \/ (checks /\ Overflows(rendered))
             THEN [kind |-> "panic", ch |-> 0,
                   index |-> Advance(e.index, Len(e.distances))]
             ELSE [kind |-> "some", ch |-> WrapU8(rendered),
                   index |-> Advance(e.index, Len(e.distances))]

\* mutant: a non-letter takes a key position too
NonLetterArmAdvances(e, ch) ==
    LET bumped == IF e.index + 1 >= Len(e.distances) THEN 0 ELSE e.index + 1 IN
    IF e.none_letter_mode = "Skip"
    THEN [kind |-> "continue", ch |-> 0, index |-> bumped]
    ELSE [kind |-> "some", ch |-> ch, index |-> bumped]

\* mutant: a skipped non-letter ends the call with None instead of continuing
NonLetterArmEndsStream(e, ch) ==
    IF e.none_letter_mode = "Skip"
    THEN [kind |-> "none", ch |-> 0, index |-> e.index]
    ELSE [kind |-> "some", ch |-> ch, index |-> e.index]

\* as NonLetterArm, but a non-letter is dropped under every policy
NonLetterArmAlwaysSkips(e, ch) == [kind |-> "continue", ch |-> 0, index |-> e.index]

\* Some(ch) => if Skip { continue } else { Some(ch) }
NonLetterArm(e, ch) ==
    IF e.none_letter_mode = "Skip"
    THEN [kind |-> "continue", ch |-> 0, index |-> e.index]
    ELSE [kind |-> "some", ch |-> ch, index |-> e.index]

\* as Match, but a None from the source rewinds the cursor to the key's start
MatchRewinds(e, item, checks) ==
    IF item = <<>> THEN [kind |-> "none", ch |-> 0, index |-> 0]
    ELSE IF IsLetter(item[1]) THEN LetterArm(e, item[1], checks)
    ELSE NonLetterArm(e, item[1])

\* match self.iter.next() { ... } on one item of the upstream source
Match(e, item, checks) ==
    IF item = <<>> THEN [kind |-> "none", ch |-> 0, index |-> e.index]
    ELSE IF IsLetter(item[1]) THEN LetterArm(e, item[1], checks)
    ELSE NonLetterArm(e, item[1])

---------------------------------------------------------------------------
(* The engine driven step by step: text.chars().encrypt(key, fc, nlm), then  *)
(* calls of next().  The upstream source is any Iterator<Item = char>: what   *)
(* it yields is chosen at the moment next() pulls from it, and, as the       *)
(* Iterator contract allows, it may yield characters again after a None.     *)

Self == [mode |-> mode, distances |-> distances, force_case |-> force_case,
         none_letter_mode |-> none_letter_mode, index |-> index]

Modes == {"Encrypt", "Decrypt"}

\* Encrypt::encrypt / Decrypt::decrypt: VigenereIterator::new, then with_force_case
\* and with_none_letter_mode for the options that are given
Construct(m, k, fcOpt, nlmOpt) ==
    /\ st = "idle"
    /\ key' = k
    /\ IF NewPanics(k, overflow_checks)
       THEN /\ st' = "panic_new"
            /\ UNCHANGED <<mode, distances, force_case, none_letter_mode, index>>
       ELSE LET e == NewEngine(m, k, fcOpt, nlmOpt) IN
            /\ st' = "ready"
            /\ mode' = e.mode
            /\ distances' = e.distances
            /\ force_case' = e.force_case
            /\ none_letter_mode' = e.none_letter_mode
            /\ index' = e.index
    /\ UNCHANGED <<overflow_checks, pulled, srcDone, out, ret, facadeVars>>

\* the characters on which the loop of next() continues
Skippable == {c \in TextChars : Match(Self, <<c>>, overflow_checks).kind = "continue"}

\* what the upstream source can still yield as the item that ends the loop
FinalItems(room) ==
    {<<>>} \cup (IF room = 0 THEN {}
                 ELSE {<<c>> : c \in TextChars \ Skippable})

\* VigenereIterator::next: pulls from the upstream source until an item is not
\* skipped, and returns what that item gives
NextCall(skipped, final) ==
    /\ st = "ready"
    /\ \E r \in {Match(Self, final, overflow_checks)} :
       /\ pulled' = pulled \o skipped \o final
       /\ srcDone' = (srcDone \/ final = <<>>)
       /\ index' = r.index
       /\ st' = IF r.kind = "panic" THEN "panic_next" ELSE "ready"
       /\ ret' = IF r.kind = "some" THEN <<r.ch>> ELSE <<>>
       /\ out' = IF r.kind = "some" THEN Append(out, r.ch) ELSE out
    /\ UNCHANGED <<overflow_checks, key, mode, distances, force_case,
                   none_letter_mode, facadeVars>>

Next ==
    \/ /\ st = "idle"
       /\ \E m \in Modes, k \in Keys, fcOpt \in ForceCaseOpts, nlmOpt \in NonLetterOpts :
             Construct(m, k, fcOpt, nlmOpt)
    \/ /\ st = "ready"
       /\ \E skipped \in SeqsUpTo(Skippable, MaxTextLen - Len(pulled)) :
             \E final \in FinalItems(MaxTextLen - Len(pulled) - Len(skipped)) :
                NextCall(skipped, final)

Init ==
    /\ overflow_checks \in BOOLEAN
    /\ st = "idle"
    /\ key = <<>>
    /\ mode = "Encrypt"
    /\ distances = <<>>
    /\ force_case = "Keep"
    /\ none_letter_mode = "Keep"
    /\ index = 0
    /\ pulled = <<>>
    /\ srcDone = FALSE
    /\ out = <<>>
    /\ ret = <<>>
    /\ vig = <<>>
    /\ text = <<>>
    /\ fop = "none"
    /\ farg = <<>>
    /\ fret = <<>>
    /\ fpanic = FALSE
    /\ fprev = <<>>
    /\ depth = 0
    /\ ffirst = <<>>
    /\ fmany = FALSE

Spec == Init /\ [][Next]_vars

\* the caller goes on calling next() while a call can still change something
LiveSpec == Init /\ [][Next]_vars /\ WF_vars(Next)

---------------------------------------------------------------------------
(* The facade: Vigenere::new, Vigenere::encrypt, Vigenere::decrypt *)

\* Iterator::collect::<String>() over the engine on text.chars(): next() is
\* called until it returns None
\* (acc holds the characters collected so far)
RECURSIVE CollectInto(_, _, _, _)
CollectInto(e, chars, acc, checks) ==
    IF chars = <<>> THEN [panic |-> FALSE, out |-> acc, index |-> e.index]
    ELSE LET r == Match(e, <<Head(chars)>>, checks) IN
         IF r.kind = "panic" THEN [panic |-> TRUE, out |-> <<>>, index |-> r.index]
         ELSE CollectInto([e EXCEPT !.index = r.index], Tail(chars),
                          IF r.kind = "some" THEN Append(acc, r.ch) ELSE acc, checks)

Collect(e, chars, checks) == CollectInto(e, chars, <<>>, checks)

\* as Transform, but the engine starts at the cursor the previous call's
\* engine ended on instead of at 0
TransformSharedCursor(m, k, arg, checks) ==
    IF NewPanics(k, checks) THEN [panic |-> TRUE, out |-> <<>>, index |-> 0]
    ELSE LET stale == IF fop = "none" \/ k = <<>> THEN 0
                      ELSE Len(SelectSeq(farg, IsLetter)) % Len(k)
         IN  Collect([NewEngine(m, k, <<>>, <<>>) EXCEPT !.index = stale], arg, checks)

\* plain_text.chars().encrypt(&self.0, None, None).collect()
\* cipher_text.chars().decrypt(&self.0, None, None).collect()
Transform(m, k, arg, checks) ==
    IF NewPanics(k, checks) THEN [panic |-> TRUE, out |-> <<>>, index |-> 0]
    ELSE Collect(NewEngine(m, k, <<>>, <<>>), arg, checks)

\* Vigenere::new
VigNew(k) ==
    /\ vig = <<>>
    /\ vig' = <<k>>
    /\ UNCHANGED <<overflow_checks, engineVars, text, fop, farg, fret, fpanic, fprev, depth,
                   ffirst, fmany>>

FacadeCall(op, m, arg, prev, d) ==
    /\ vig # <<>>
    /\ ~fpanic
    /\ \E r \in {Transform(m, vig[1], arg, overflow_checks)} :
       /\ fop' = op
       /\ farg' = arg
       /\ fret' = r.out
       /\ fpanic' = r.panic
       /\ fprev' = prev
       /\ depth' = d
       /\ ffirst' = IF fop = "none" THEN <<op, arg, r.out>> ELSE ffirst
       /\ fmany' = (fop # "none")
    /\ UNCHANGED <<overflow_checks, engineVars, vig, text>>

\* a call on the caller's own string
FreshArg(op, m) == FacadeCall(op, m, text, <<>>, 0)

\* a call on the String the previous call returned
ChainedArg(op, m) ==
    /\ fop # "none"
    /\ depth < MaxChain
    /\ FacadeCall(op, m, fret, <<fop, farg>>, depth + 1)

\* Vigenere::encrypt
VigEncrypt == FreshArg("encrypt", "Encrypt") \/ ChainedArg("encrypt", "Encrypt")

\* Vigenere::decrypt
VigDecrypt == FreshArg("decrypt", "Decrypt") \/ ChainedArg("decrypt", "Decrypt")

FacadeNext ==
    \/ /\ vig = <<>>
       /\ \E k \in FacadeKeys : VigNew(k)
    \/ VigEncrypt
    \/ VigDecrypt

\* the caller's string is any text
FacadeInit ==
    /\ overflow_checks \in BOOLEAN
    /\ text \in Texts
    /\ st = "idle"
    /\ key = <<>>
    /\ mode = "Encrypt"
    /\ distances = <<>>
    /\ force_case = "Keep"
    /\ none_letter_mode = "Keep"
    /\ index = 0
    /\ pulled = <<>>
    /\ srcDone = FALSE
    /\ out = <<>>
    /\ ret = <<>>
    /\ vig = <<>>
    /\ fop = "none"
    /\ farg = <<>>
    /\ fret = <<>>
    /\ fpanic = FALSE
    /\ fprev = <<>>
    /\ depth = 0
    /\ ffirst = <<>>
    /\ fmany = FALSE

FacadeSpec == FacadeInit /\ [][FacadeNext]_vars

---------------------------------------------------------------------------
(* Properties *)

\* a non-empty key made only of Latin letters
LatinKey(k) == k # <<>> /\ \A i \in 1..Len(k) : IsLetter(k[i])

HasUpper(s) == \E i \in 1..Len(s) : IsUpper(s[i])
HasLower(s) == \E i \in 1..Len(s) : IsLower(s[i])
HasNonLetter(s) == \E i \in 1..Len(s) : ~IsLetter(s[i])
CountLetters(s) == Cardinality({i \in 1..Len(s) : IsLetter(s[i])})

\* C1: under a non-empty key of Latin letters, decrypt applied to the String
\* that encrypt returned gives back exactly the text that was encrypted
C1_InverseLaw ==
    (vig # <<>> /\ LatinKey(vig[1]) /\ fop = "decrypt"
        /\ fprev # <<>> /\ fprev[1] = "encrypt")
    => (~fpanic /\ fret = fprev[2])

\* a round trip with a two-letter key over a text that mixes upper case, lower
\* case and a non-letter, whose cipher text differs from it
C1_Witness ==
    /\ vig # <<>> /\ LatinKey(vig[1]) /\ Len(vig[1]) = 2
    /\ fop = "decrypt" /\ fprev # <<>> /\ fprev[1] = "encrypt"
    /\ HasUpper(fprev[2]) /\ HasLower(fprev[2]) /\ HasNonLetter(fprev[2])
    /\ farg # fprev[2]
    /\ fret = fprev[2]

\* C2: an empty key is rejected at construction, so no engine exists (ready,
\* or failed in a later step) whose key schedule is empty
C2_EmptyKeyRejected ==
    ~(st \in {"ready", "panic_next"} /\ distances = <<>>)

\* C3: construction never panics, whatever the key
C3_ConstructionNeverPanics == st # "panic_new"

\* C4: the key schedule of every constructed engine is non-empty and every
\* shift in it lies in 0..25
C4_KeyScheduleInvariant ==
    st = "ready" => (distances # <<>> /\ \A i \in 1..Len(distances) : distances[i] \in 0..25)

\* C5: an engine built from a non-empty key of Latin letters never panics,
\* neither in construction nor in a step
C5_StepTotality == LatinKey(key) => st \notin {"panic_new", "panic_next"}

\* a Decrypt engine built with overflow checks on that has stepped over an
\* upper-case letter, a lower-case letter and a non-letter, past the key's end
C5_Witness ==
    /\ overflow_checks /\ LatinKey(key) /\ st = "ready" /\ mode = "Decrypt"
    /\ HasUpper(pulled) /\ HasLower(pulled) /\ HasNonLetter(pulled)
    /\ CountLetters(pulled) > Len(distances)

Last(s) == s[Len(s)]

\* the alphabet position of a Latin letter
Pos(c) == IF IsUpper(c) THEN c - UPPER_BASE ELSE c - LOWER_BASE

\* the characters a step has consumed
Consumed == SubSeq(pulled', Len(pulled) + 1, Len(pulled'))

\* C6: a step that consumes only non-letters (kept or skipped) leaves the
\* cursor unchanged; a step that consumes a letter moves it by one position
\* modulo the key length
C6_CursorAdvanceRule ==
    [][(st = "ready" /\ st' = "ready")
        => IF HasUpper(Consumed) \/ HasLower(Consumed)
           THEN index' = (index + 1) % Len(distances)
           ELSE index' = index]_vars

\* a two-shift engine that skipped a non-letter and a kept-policy engine that
\* passed one through, each with one letter consumed and the cursor at 1
C6_Witness ==
    /\ st = "ready" /\ Len(distances) = 2 /\ index = 1
    /\ Len(pulled) = 3 /\ CountLetters(pulled) = 1 /\ ~IsLetter(Last(pulled))

\* C7: under a non-empty key of Latin letters of length L, the k-th letter
\* consumed (k counted over letters only) is returned shifted by
\* distances[k mod L]: (value + shift) mod 26 in Encrypt mode,
\* (26 + value - shift) mod 26 in Decrypt mode, under both non-letter policies
C7_KeyAlignment ==
    [][(st = "ready" /\ LatinKey(key) /\ pulled' # pulled /\ IsLetter(Last(pulled')))
        => LET k == CountLetters(pulled)
               shift == distances[(k % Len(distances)) + 1]
               value == Pos(Last(pulled'))
               expected == IF mode = "Encrypt" THEN (value + shift) % 26
                           ELSE (26 + value - shift) % 26
           IN  /\ st' = "ready"
               /\ ret' # <<>>
               /\ IsLetter(ret'[1])
               /\ Pos(ret'[1]) = expected]_vars

\* the third letter of an input with a non-letter in it, under a key of two
\* different shifts: the key has wrapped around
C7_Witness ==
    /\ st = "ready" /\ LatinKey(key) /\ Len(distances) = 2
    /\ distances[1] # distances[2]
    /\ CountLetters(pulled) = 3 /\ HasNonLetter(pulled) /\ IsLetter(Last(pulled))
    /\ ret # <<>> /\ index = 1

\* C8: under a non-empty key of Latin letters, the character returned for a
\* Latin letter is a Latin letter: the computed result is in 0..25
C8_ResultRange ==
    [][(st = "ready" /\ LatinKey(key) /\ pulled' # pulled /\ IsLetter(Last(pulled')))
        => (ret' # <<>> /\ (IsUpper(ret'[1]) \/ IsLower(ret'[1]))
            /\ Pos(ret'[1]) \in 0..25)]_vars

\* 'z' under shift 25 in Encrypt mode came out as a letter
C8_Witness ==
    /\ st = "ready" /\ LatinKey(key) /\ mode = "Encrypt"
    /\ index > 0 /\ distances[index] = 25
    /\ pulled # <<>> /\ Last(pulled) = 122
    /\ ret # <<>> /\ IsLetter(ret[1])

ToLowerAll(s) == [i \in 1..Len(s) |-> IF IsUpper(s[i]) THEN s[i] + 32 ELSE s[i]]
ToUpperAll(s) == [i \in 1..Len(s) |-> IF IsLower(s[i]) THEN s[i] - 32 ELSE s[i]]

\* the run of an engine with the same key and mode over the same input, with
\* the given case policy and non-letter policy
SideRun(fc, nlm) ==
    Collect(NewEngine(mode, key, <<fc>>, <<nlm>>), pulled, overflow_checks)

\* C9: after every step the cursor equals that of the ForceCase::Keep run over
\* the same input, and the output under ToLower (ToUpper) is the Keep output
\* with its Latin letters lower-cased (upper-cased)
C9_CasePolicyIndependence ==
    st = "ready"
    => LET keep == SideRun("Keep", none_letter_mode) IN
       /\ ~keep.panic
       /\ index = keep.index
       /\ force_case = "ToLower" => out = ToLowerAll(keep.out)
       /\ force_case = "ToUpper" => out = ToUpperAll(keep.out)
       /\ force_case = "Keep" => out = keep.out

\* a ToUpper run over mixed-case input whose output differs from the Keep run
C9_Witness ==
    /\ st = "ready" /\ force_case = "ToUpper" /\ LatinKey(key)
    /\ HasUpper(pulled) /\ HasLower(pulled) /\ CountLetters(pulled) >= 3
    /\ out # SideRun("Keep", none_letter_mode).out
    /\ out = ToUpperAll(SideRun("Keep", none_letter_mode).out)

\* C10: under NonLetterMode::Skip the output is the NonLetterMode::Keep output
\* with the non-letters removed, its length is the number of Latin letters
\* consumed, and a call returns None only when the source has ended
C10_SkipPolicy ==
    (st = "ready" /\ none_letter_mode = "Skip")
    => LET keep == SideRun(force_case, "Keep") IN
       /\ ~keep.panic
       /\ out = SelectSeq(keep.out, IsLetter)
       /\ Len(out) = CountLetters(pulled)
       /\ (pulled # <<>> /\ ~srcDone) => (ret # <<>> /\ IsLetter(Last(pulled)))

\* a Skip run that dropped non-letters between letters and is still going
C10_Witness ==
    /\ st = "ready" /\ none_letter_mode = "Skip" /\ ~srcDone
    /\ Len(pulled) = 4 /\ CountLetters(pulled) = 2 /\ ~IsLetter(pulled[1])
    /\ Len(out) = 2 /\ Len(SideRun(force_case, "Keep").out) = 4

\* the Latin letters of a string, in order
LettersOf(s) == SelectSeq(s, IsLetter)

\* C11: under a non-empty key of Latin letters, decrypting (case policy Keep)
\* what an Encrypt engine with NonLetterMode::Skip and case policy Keep has
\* returned gives exactly the Latin letters of the input consumed, in order
\* and in their original case
C11_SkipRoundTrip ==
    (st = "ready" /\ LatinKey(key) /\ mode = "Encrypt"
        /\ none_letter_mode = "Skip" /\ force_case = "Keep")
    => LET back == Collect(NewEngine("Decrypt", key, <<"Keep">>, <<>>), out,
                           overflow_checks) IN
       /\ ~back.panic
       /\ back.out = LettersOf(pulled)

\* a Skip encryption under a two-letter key of mixed-case input with a
\* non-letter between the letters, long enough for the key to wrap
C11_Witness ==
    /\ st = "ready" /\ LatinKey(key) /\ Len(key) = 2 /\ distances[1] # distances[2]
    /\ mode = "Encrypt" /\ none_letter_mode = "Skip" /\ force_case = "Keep"
    /\ HasUpper(pulled) /\ HasLower(pulled) /\ ~IsLetter(pulled[2])
    /\ CountLetters(pulled) = 3 /\ Len(out) = 3
    /\ out # LettersOf(pulled)

\* C12: under a non-empty key of Latin letters, Vigenere::encrypt and
\* Vigenere::decrypt return as many characters as their argument has, and
\* every non-letter of the argument is unchanged at the same index
C12_LengthPreservation ==
    (vig # <<>> /\ LatinKey(vig[1]) /\ fop # "none")
    => /\ ~fpanic
       /\ Len(fret) = Len(farg)
       /\ \A i \in 1..Len(farg) : ~IsLetter(farg[i]) => fret[i] = farg[i]

\* an encryption that changed the letters of a four-character text with a
\* non-letter inside it
C12_Witness ==
    /\ vig # <<>> /\ LatinKey(vig[1]) /\ fop = "encrypt"
    /\ Len(farg) = 4 /\ ~IsLetter(farg[2]) /\ IsLetter(farg[1]) /\ IsLetter(farg[3])
    /\ Len(fret) = 4 /\ fret[2] = farg[2] /\ fret[1] # farg[1]

\* a non-empty key made only of 'A' and 'a'
IdentityKey(k) == k # <<>> /\ \A i \in 1..Len(k) : k[i] \in {65, 97}

\* C13: under a key made only of 'A' and 'a', Vigenere::encrypt and
\* Vigenere::decrypt return their argument unchanged
C13_IdentityKey ==
    (vig # <<>> /\ IdentityKey(vig[1]) /\ fop # "none")
    => (~fpanic /\ fret = farg)

\* a decryption under the key "Aa" (or "aA") of a text that mixes upper case,
\* lower case and a non-letter
C13_Witness ==
    /\ vig # <<>> /\ IdentityKey(vig[1]) /\ Len(vig[1]) = 2 /\ vig[1][1] # vig[1][2]
    /\ fop = "decrypt"
    /\ HasUpper(farg) /\ HasLower(farg) /\ HasNonLetter(farg) /\ CountLetters(farg) = 3
    /\ fret = farg

\* the two case forms of a Latin letter
CaseForms(ch) == IF IsUpper(ch) THEN {ch, ch + 32} ELSE {ch, ch - 32}

\* the keys that differ from k only in the case of their letters (k included)
RECURSIVE CaseVariants(_)
CaseVariants(k) ==
    IF k = <<>> THEN {<<>>}
    ELSE {<<c>> \o v : c \in CaseForms(Head(k)), v \in CaseVariants(Tail(k))}

\* C14: under a non-empty key of Latin letters, every key that differs from
\* it only in the case of its letters builds the same key schedule and gives
\* the same output over the same input, in the engine's mode and policies
C14_KeyCaseInsensitive ==
    (st = "ready" /\ LatinKey(key))
    => \A k2 \in CaseVariants(key) :
          /\ ~NewPanics(k2, overflow_checks)
          /\ NewDistances(k2) = distances
          /\ Collect(NewEngine(mode, k2, <<force_case>>, <<none_letter_mode>>),
                     pulled, overflow_checks).out = out

\* an engine under the mixed-case key "Bz" that has transformed three letters
C14_Witness ==
    /\ st = "ready" /\ key = <<66, 122>>
    /\ <<98, 90>> \in CaseVariants(key)
    /\ CountLetters(pulled) >= 3 /\ Len(out) >= 3 /\ out # pulled

\* C15 as claimed: once a call of next() has returned None, every later call
\* returns None and emits nothing, whatever the upstream source does
C15_ExhaustionFinalAnySource ==
    [][(st = "ready" /\ srcDone) => (ret' = <<>> /\ out' = out)]_vars

\* C15 as amended: once the source has returned None, every call of next() in
\* which the source yields nothing more returns None, emits nothing and
\* leaves the cursor where it is (no restart)
C15_ExhaustionFinal ==
    [][(st = "ready" /\ srcDone /\ pulled' = pulled)
       => (ret' = <<>> /\ out' = out /\ index' = index /\ st' = "ready")]_vars

\* exhaustion signalled in the middle of the key, after output was produced
C15_Witness ==
    /\ st = "ready" /\ srcDone /\ ret = <<>>
    /\ LatinKey(key) /\ index # 0 /\ Len(out) >= 2

\* C16 as claimed: a call of next() consumes at most one upstream character
\* and produces at most one output character, under Keep and under Skip
C16_OnePullPerStep ==
    [][st = "ready" => (Len(Consumed) <= 1 /\ Len(out') <= Len(out) + 1)]_vars

\* C16 as amended: a call of next() produces at most one output character;
\* under Keep it consumes at most one upstream character; under Skip every
\* character it consumes except the last is a dropped non-letter, so it
\* consumes at most one letter
C16_OnePullPerStepAmended ==
    [][st = "ready"
       => /\ Len(out') <= Len(out) + 1
          /\ SubSeq(out', 1, Len(out)) = out
          /\ none_letter_mode = "Keep" => Len(Consumed) <= 1
          /\ \A i \in 1..(Len(Consumed) - 1) :
                ~IsLetter(Consumed[i]) /\ none_letter_mode = "Skip"
          /\ CountLetters(Consumed) <= 1]_vars

\* under Skip the first call of next() consumed two non-letters and a letter
C16_Witness ==
    /\ st = "ready" /\ none_letter_mode = "Skip" /\ ~srcDone
    /\ Len(pulled) = 3 /\ Len(out) = 1
    /\ ~IsLetter(pulled[1]) /\ ~IsLetter(pulled[2]) /\ IsLetter(pulled[3])

\* C17: a call of next() leaves key, mode, distances, force_case and
\* none_letter_mode unchanged; when it returns, the cursor has moved by one
\* place (modulo the key length) for each letter consumed and not otherwise
C17_OnlyCursorMutable ==
    [][st = "ready"
       => /\ key' = key /\ mode' = mode /\ distances' = distances
          /\ force_case' = force_case /\ none_letter_mode' = none_letter_mode
          /\ (st' = "ready" /\ distances # <<>>)
             => index' = (index + CountLetters(Consumed)) % Len(distances)]_vars

\* under Keep, three letters and a non-letter went through a two-letter key
C17_Witness ==
    /\ st = "ready" /\ none_letter_mode = "Keep" /\ Len(distances) = 2
    /\ CountLetters(pulled) = 3 /\ HasNonLetter(pulled) /\ index = 1
    /\ Len(out) = 4

\* position of the first letter of s (0 when s has none)
FirstLetter(s) ==
    IF \E i \in 1..Len(s) : IsLetter(s[i])
    THEN CHOOSE i \in 1..Len(s) : IsLetter(s[i]) /\ \A j \in 1..(i - 1) : ~IsLetter(s[j])
    ELSE 0

C19_CursorRange ==
    (st = "ready" /\ key # <<>>)
    => /\ Len(distances) = Len(key)
       /\ index \in 0..(Len(distances) - 1)
       /\ index = CountLetters(pulled) % Len(distances)
       /\ pulled = <<>> => index = 0

\* four letters through a two-letter key under Skip: the cursor wrapped twice
C19_Witness ==
    /\ st = "ready" /\ Len(key) = 2 /\ none_letter_mode = "Skip"
    /\ CountLetters(pulled) = 4 /\ index = 0

\* C20: under a Latin key, every call of next() made before the source has
\* ended either consumes at least one character and returns one, or meets
\* the end of the source and returns None; so the call that returns None is
\* at most number n + 1 when the source held n characters, and it is reached
C20_EventualExhaustion ==
    /\ [][(st = "ready" /\ LatinKey(key) /\ ~srcDone)
          => /\ SubSeq(pulled', 1, Len(pulled)) = pulled
             /\ IF srcDone'
                THEN ret' = <<>> /\ out' = out /\ st' = "ready"
                ELSE /\ ret' # <<>> /\ Len(out') = Len(out) + 1
                     /\ Len(Consumed) >= 1]_vars
    /\ (st = "ready" /\ LatinKey(key)) ~> (srcDone /\ Len(out) <= Len(pulled))

\* the source ended after four characters, two of them dropped under Skip
C20_Witness ==
    /\ st = "ready" /\ LatinKey(key) /\ srcDone /\ ret = <<>>
    /\ none_letter_mode = "Skip"
    /\ Len(pulled) = 4 /\ CountLetters(pulled) = 2 /\ Len(out) = 2

\* the mode of the engine a facade operation drives
ModeOf(op) == IF op = "encrypt" THEN "Encrypt" ELSE "Decrypt"

\* the places where s can be cut after a whole number of key periods:
\* the prefix of length p holds a multiple of L Latin letters
PeriodCuts(s, L) == {p \in 0..Len(s) : CountLetters(SubSeq(s, 1, p)) % L = 0}

\* C21: under a non-empty key of Latin letters of length L, for every cut of
\* the argument into a and b where a holds a multiple of L Latin letters, the
\* result of the call on a ++ b is the result on a followed by the result on
\* b, each part run through its own engine starting at cursor 0
C21_PeriodPartition ==
    (vig # <<>> /\ LatinKey(vig[1]) /\ fop # "none")
    => /\ ~fpanic
       /\ \A p \in PeriodCuts(farg, Len(vig[1])) :
             \A a \in {Transform(ModeOf(fop), vig[1], SubSeq(farg, 1, p), overflow_checks)},
                b \in {Transform(ModeOf(fop), vig[1], SubSeq(farg, p + 1, Len(farg)),
                                overflow_checks)} :
                ~a.panic /\ ~b.panic /\ fret = a.out \o b.out

\* a decrypt under the key "az" of a string cut after "letter, non-letter,
\* letter" (one key period), with a letter left in the second part
C21_Witness ==
    /\ vig = <<(<<97, 122>>)>> /\ fop = "decrypt" /\ ~fpanic
    /\ Len(farg) = 4 /\ 3 \in PeriodCuts(farg, 2) /\ 1 \notin PeriodCuts(farg, 2)
    /\ IsLetter(farg[1]) /\ ~IsLetter(farg[2]) /\ IsLetter(farg[3]) /\ IsLetter(farg[4])
    /\ fret # farg

====
